---- MODULE Spec2Model ----
(***************************************************************************)
(* A model of libstd/tuple.rs: the n-ary tuple traits that tuple_impls!    *)
(* generates for the arities 2..12 (accessors, Clone, Eq, TotalEq, Ord,    *)
(* TotalOrd, Zero), with the lexical_lt! and lexical_cmp! macros expanded  *)
(* as recursive operators, and the pair methods.  A tuple is a sequence; a *)
(* reference to an element of a tuple is the slot (1-based index) it       *)
(* points at; every tuple operation returns its result together with the   *)
(* log of the element-level operations it invoked, in the order it invoked *)
(* them.                                                                   *)
(*                                                                         *)
(* And of libstd/unstable/intrinsics.rs: the byte-order helpers to_le<W>   *)
(* and to_be<W> under both values of cfg(target_endian), and the TyVisitor *)
(* callbacks as visit_tydesc issues them.                                  *)
(*                                                                         *)
(* The three parts do not interact: each has a specification of its own    *)
(* (Spec, SpecBytes, SpecVisit), in which the variables of the other two   *)
(* keep their idle values.                                                 *)
(***************************************************************************)
EXTENDS Integers, Sequences, FiniteSets, TLC

VARIABLES
    ty, a, b,           \* the element type and the two tuples of a caller
    op, idx, res, log,  \* the call that returned, its index argument, its
                        \* result and the element-level calls it made
    host, word,         \* target_endian of the build, the integer converted
    td, disr, design,   \* the type descriptor visited, the discriminant of
                        \* the value the visitor holds, the abort design
    calls, status       \* the callbacks issued so far, the traversal's state

tupleVars == <<ty, a, b>>

bytesVars == <<host, word>>

visitVars == <<td, disr, design, calls, status>>

vars == <<ty, a, b, op, idx, res, log, host, word, td, disr, design, calls, status>>

\* The idle values of the parts a specification does not exercise.
TupleIdle == ty = "uint" /\ a = <<>> /\ b = <<>>

CallIdle == op = "none" /\ idx = 0 /\ res = "none" /\ log = <<>>

BytesIdle == host = "none" /\ word = <<>>

VisitIdle ==
    /\ td = [shape |-> "none"]
    /\ disr = 0
    /\ design = "none"
    /\ calls = <<>>
    /\ status = "idle"

\* Largest element value of the enumerated element types.
MaxElem == 1

\* Largest arity whose tuples are enumerated in full; above it the inputs
\* are the tuples that differ from the all-zero tuple at one position at
\* most, and the tuples of the repository's own tests.
MaxEnumArity == 2

Range(s) == {s[k] : k \in 1..Len(s)}

(***************************************************************************)
(* The invocation table of tuple_impls!, transcribed row by row: per arity *)
(* the two trait names, and per row the accessor names, the type variable, *)
(* the pattern (the name bound by `ref`, or "_") and the returned name.    *)
(***************************************************************************)
TupleImpls ==
  <<
    [cloneable_trait |-> "CloneableTuple2", immutable_trait |-> "ImmutableTuple2", rows |-> <<
        [get_fn |-> "n0", get_ref_fn |-> "n0_ref", T |-> "A",
         get_pattern |-> <<"a","_">>, ret |-> "a"],
        [get_fn |-> "n1", get_ref_fn |-> "n1_ref", T |-> "B",
         get_pattern |-> <<"_","b">>, ret |-> "b"] >>],
    [cloneable_trait |-> "CloneableTuple3", immutable_trait |-> "ImmutableTuple3", rows |-> <<
        [get_fn |-> "n0", get_ref_fn |-> "n0_ref", T |-> "A",
         get_pattern |-> <<"a","_","_">>, ret |-> "a"],
        [get_fn |-> "n1", get_ref_fn |-> "n1_ref", T |-> "B",
         get_pattern |-> <<"_","b","_">>, ret |-> "b"],
        [get_fn |-> "n2", get_ref_fn |-> "n2_ref", T |-> "C",
         get_pattern |-> <<"_","_","c">>, ret |-> "c"] >>],
    [cloneable_trait |-> "CloneableTuple4", immutable_trait |-> "ImmutableTuple4", rows |-> <<
        [get_fn |-> "n0", get_ref_fn |-> "n0_ref", T |-> "A",
         get_pattern |-> <<"a","_","_","_">>, ret |-> "a"],
        [get_fn |-> "n1", get_ref_fn |-> "n1_ref", T |-> "B",
         get_pattern |-> <<"_","b","_","_">>, ret |-> "b"],
        [get_fn |-> "n2", get_ref_fn |-> "n2_ref", T |-> "C",
         get_pattern |-> <<"_","_","c","_">>, ret |-> "c"],
        [get_fn |-> "n3", get_ref_fn |-> "n3_ref", T |-> "D",
         get_pattern |-> <<"_","_","_","d">>, ret |-> "d"] >>],
    [cloneable_trait |-> "CloneableTuple5", immutable_trait |-> "ImmutableTuple5", rows |-> <<
        [get_fn |-> "n0", get_ref_fn |-> "n0_ref", T |-> "A",
         get_pattern |-> <<"a","_","_","_","_">>, ret |-> "a"],
        [get_fn |-> "n1", get_ref_fn |-> "n1_ref", T |-> "B",
         get_pattern |-> <<"_","b","_","_","_">>, ret |-> "b"],
        [get_fn |-> "n2", get_ref_fn |-> "n2_ref", T |-> "C",
         get_pattern |-> <<"_","_","c","_","_">>, ret |-> "c"],
        [get_fn |-> "n3", get_ref_fn |-> "n3_ref", T |-> "D",
         get_pattern |-> <<"_","_","_","d","_">>, ret |-> "d"],
        [get_fn |-> "n4", get_ref_fn |-> "n4_ref", T |-> "E",
         get_pattern |-> <<"_","_","_","_","e">>, ret |-> "e"] >>],
    [cloneable_trait |-> "CloneableTuple6", immutable_trait |-> "ImmutableTuple6", rows |-> <<
        [get_fn |-> "n0", get_ref_fn |-> "n0_ref", T |-> "A",
         get_pattern |-> <<"a","_","_","_","_","_">>, ret |-> "a"],
        [get_fn |-> "n1", get_ref_fn |-> "n1_ref", T |-> "B",
         get_pattern |-> <<"_","b","_","_","_","_">>, ret |-> "b"],
        [get_fn |-> "n2", get_ref_fn |-> "n2_ref", T |-> "C",
         get_pattern |-> <<"_","_","c","_","_","_">>, ret |-> "c"],
        [get_fn |-> "n3", get_ref_fn |-> "n3_ref", T |-> "D",
         get_pattern |-> <<"_","_","_","d","_","_">>, ret |-> "d"],
        [get_fn |-> "n4", get_ref_fn |-> "n4_ref", T |-> "E",
         get_pattern |-> <<"_","_","_","_","e","_">>, ret |-> "e"],
        [get_fn |-> "n5", get_ref_fn |-> "n5_ref", T |-> "F",
         get_pattern |-> <<"_","_","_","_","_","f">>, ret |-> "f"] >>],
    [cloneable_trait |-> "CloneableTuple7", immutable_trait |-> "ImmutableTuple7", rows |-> <<
        [get_fn |-> "n0", get_ref_fn |-> "n0_ref", T |-> "A",
         get_pattern |-> <<"a","_","_","_","_","_","_">>, ret |-> "a"],
        [get_fn |-> "n1", get_ref_fn |-> "n1_ref", T |-> "B",
         get_pattern |-> <<"_","b","_","_","_","_","_">>, ret |-> "b"],
        [get_fn |-> "n2", get_ref_fn |-> "n2_ref", T |-> "C",
         get_pattern |-> <<"_","_","c","_","_","_","_">>, ret |-> "c"],
        [get_fn |-> "n3", get_ref_fn |-> "n3_ref", T |-> "D",
         get_pattern |-> <<"_","_","_","d","_","_","_">>, ret |-> "d"],
        [get_fn |-> "n4", get_ref_fn |-> "n4_ref", T |-> "E",
         get_pattern |-> <<"_","_","_","_","e","_","_">>, ret |-> "e"],
        [get_fn |-> "n5", get_ref_fn |-> "n5_ref", T |-> "F",
         get_pattern |-> <<"_","_","_","_","_","f","_">>, ret |-> "f"],
        [get_fn |-> "n6", get_ref_fn |-> "n6_ref", T |-> "G",
         get_pattern |-> <<"_","_","_","_","_","_","g">>, ret |-> "g"] >>],
    [cloneable_trait |-> "CloneableTuple8", immutable_trait |-> "ImmutableTuple8", rows |-> <<
        [get_fn |-> "n0", get_ref_fn |-> "n0_ref", T |-> "A",
         get_pattern |-> <<"a","_","_","_","_","_","_","_">>, ret |-> "a"],
        [get_fn |-> "n1", get_ref_fn |-> "n1_ref", T |-> "B",
         get_pattern |-> <<"_","b","_","_","_","_","_","_">>, ret |-> "b"],
        [get_fn |-> "n2", get_ref_fn |-> "n2_ref", T |-> "C",
         get_pattern |-> <<"_","_","c","_","_","_","_","_">>, ret |-> "c"],
        [get_fn |-> "n3", get_ref_fn |-> "n3_ref", T |-> "D",
         get_pattern |-> <<"_","_","_","d","_","_","_","_">>, ret |-> "d"],
        [get_fn |-> "n4", get_ref_fn |-> "n4_ref", T |-> "E",
         get_pattern |-> <<"_","_","_","_","e","_","_","_">>, ret |-> "e"],
        [get_fn |-> "n5", get_ref_fn |-> "n5_ref", T |-> "F",
         get_pattern |-> <<"_","_","_","_","_","f","_","_">>, ret |-> "f"],
        [get_fn |-> "n6", get_ref_fn |-> "n6_ref", T |-> "G",
         get_pattern |-> <<"_","_","_","_","_","_","g","_">>, ret |-> "g"],
        [get_fn |-> "n7", get_ref_fn |-> "n7_ref", T |-> "H",
         get_pattern |-> <<"_","_","_","_","_","_","_","h">>, ret |-> "h"] >>],
    [cloneable_trait |-> "CloneableTuple9", immutable_trait |-> "ImmutableTuple9", rows |-> <<
        [get_fn |-> "n0", get_ref_fn |-> "n0_ref", T |-> "A",
         get_pattern |-> <<"a","_","_","_","_","_","_","_","_">>, ret |-> "a"],
        [get_fn |-> "n1", get_ref_fn |-> "n1_ref", T |-> "B",
         get_pattern |-> <<"_","b","_","_","_","_","_","_","_">>, ret |-> "b"],
        [get_fn |-> "n2", get_ref_fn |-> "n2_ref", T |-> "C",
         get_pattern |-> <<"_","_","c","_","_","_","_","_","_">>, ret |-> "c"],
        [get_fn |-> "n3", get_ref_fn |-> "n3_ref", T |-> "D",
         get_pattern |-> <<"_","_","_","d","_","_","_","_","_">>, ret |-> "d"],
        [get_fn |-> "n4", get_ref_fn |-> "n4_ref", T |-> "E",
         get_pattern |-> <<"_","_","_","_","e","_","_","_","_">>, ret |-> "e"],
        [get_fn |-> "n5", get_ref_fn |-> "n5_ref", T |-> "F",
         get_pattern |-> <<"_","_","_","_","_","f","_","_","_">>, ret |-> "f"],
        [get_fn |-> "n6", get_ref_fn |-> "n6_ref", T |-> "G",
         get_pattern |-> <<"_","_","_","_","_","_","g","_","_">>, ret |-> "g"],
        [get_fn |-> "n7", get_ref_fn |-> "n7_ref", T |-> "H",
         get_pattern |-> <<"_","_","_","_","_","_","_","h","_">>, ret |-> "h"],
        [get_fn |-> "n8", get_ref_fn |-> "n8_ref", T |-> "I",
         get_pattern |-> <<"_","_","_","_","_","_","_","_","i">>, ret |-> "i"] >>],
    [cloneable_trait |-> "CloneableTuple10", immutable_trait |-> "ImmutableTuple10", rows |-> <<
        [get_fn |-> "n0", get_ref_fn |-> "n0_ref", T |-> "A",
         get_pattern |-> <<"a","_","_","_","_","_","_","_","_","_">>, ret |-> "a"],
        [get_fn |-> "n1", get_ref_fn |-> "n1_ref", T |-> "B",
         get_pattern |-> <<"_","b","_","_","_","_","_","_","_","_">>, ret |-> "b"],
        [get_fn |-> "n2", get_ref_fn |-> "n2_ref", T |-> "C",
         get_pattern |-> <<"_","_","c","_","_","_","_","_","_","_">>, ret |-> "c"],
        [get_fn |-> "n3", get_ref_fn |-> "n3_ref", T |-> "D",
         get_pattern |-> <<"_","_","_","d","_","_","_","_","_","_">>, ret |-> "d"],
        [get_fn |-> "n4", get_ref_fn |-> "n4_ref", T |-> "E",
         get_pattern |-> <<"_","_","_","_","e","_","_","_","_","_">>, ret |-> "e"],
        [get_fn |-> "n5", get_ref_fn |-> "n5_ref", T |-> "F",
         get_pattern |-> <<"_","_","_","_","_","f","_","_","_","_">>, ret |-> "f"],
        [get_fn |-> "n6", get_ref_fn |-> "n6_ref", T |-> "G",
         get_pattern |-> <<"_","_","_","_","_","_","g","_","_","_">>, ret |-> "g"],
        [get_fn |-> "n7", get_ref_fn |-> "n7_ref", T |-> "H",
         get_pattern |-> <<"_","_","_","_","_","_","_","h","_","_">>, ret |-> "h"],
        [get_fn |-> "n8", get_ref_fn |-> "n8_ref", T |-> "I",
         get_pattern |-> <<"_","_","_","_","_","_","_","_","i","_">>, ret |-> "i"],
        [get_fn |-> "n9", get_ref_fn |-> "n9_ref", T |-> "J",
         get_pattern |-> <<"_","_","_","_","_","_","_","_","_","j">>, ret |-> "j"] >>],
    [cloneable_trait |-> "CloneableTuple11", immutable_trait |-> "ImmutableTuple11", rows |-> <<
        [get_fn |-> "n0", get_ref_fn |-> "n0_ref", T |-> "A",
         get_pattern |-> <<"a","_","_","_","_","_","_","_","_","_","_">>, ret |-> "a"],
        [get_fn |-> "n1", get_ref_fn |-> "n1_ref", T |-> "B",
         get_pattern |-> <<"_","b","_","_","_","_","_","_","_","_","_">>, ret |-> "b"],
        [get_fn |-> "n2", get_ref_fn |-> "n2_ref", T |-> "C",
         get_pattern |-> <<"_","_","c","_","_","_","_","_","_","_","_">>, ret |-> "c"],
        [get_fn |-> "n3", get_ref_fn |-> "n3_ref", T |-> "D",
         get_pattern |-> <<"_","_","_","d","_","_","_","_","_","_","_">>, ret |-> "d"],
        [get_fn |-> "n4", get_ref_fn |-> "n4_ref", T |-> "E",
         get_pattern |-> <<"_","_","_","_","e","_","_","_","_","_","_">>, ret |-> "e"],
        [get_fn |-> "n5", get_ref_fn |-> "n5_ref", T |-> "F",
         get_pattern |-> <<"_","_","_","_","_","f","_","_","_","_","_">>, ret |-> "f"],
        [get_fn |-> "n6", get_ref_fn |-> "n6_ref", T |-> "G",
         get_pattern |-> <<"_","_","_","_","_","_","g","_","_","_","_">>, ret |-> "g"],
        [get_fn |-> "n7", get_ref_fn |-> "n7_ref", T |-> "H",
         get_pattern |-> <<"_","_","_","_","_","_","_","h","_","_","_">>, ret |-> "h"],
        [get_fn |-> "n8", get_ref_fn |-> "n8_ref", T |-> "I",
         get_pattern |-> <<"_","_","_","_","_","_","_","_","i","_","_">>, ret |-> "i"],
        [get_fn |-> "n9", get_ref_fn |-> "n9_ref", T |-> "J",
         get_pattern |-> <<"_","_","_","_","_","_","_","_","_","j","_">>, ret |-> "j"],
        [get_fn |-> "n10", get_ref_fn |-> "n10_ref", T |-> "K",
         get_pattern |-> <<"_","_","_","_","_","_","_","_","_","_","k">>, ret |-> "k"] >>],
    [cloneable_trait |-> "CloneableTuple12", immutable_trait |-> "ImmutableTuple12", rows |-> <<
        [get_fn |-> "n0", get_ref_fn |-> "n0_ref", T |-> "A",
         get_pattern |-> <<"a","_","_","_","_","_","_","_","_","_","_","_">>, ret |-> "a"],
        [get_fn |-> "n1", get_ref_fn |-> "n1_ref", T |-> "B",
         get_pattern |-> <<"_","b","_","_","_","_","_","_","_","_","_","_">>, ret |-> "b"],
        [get_fn |-> "n2", get_ref_fn |-> "n2_ref", T |-> "C",
         get_pattern |-> <<"_","_","c","_","_","_","_","_","_","_","_","_">>, ret |-> "c"],
        [get_fn |-> "n3", get_ref_fn |-> "n3_ref", T |-> "D",
         get_pattern |-> <<"_","_","_","d","_","_","_","_","_","_","_","_">>, ret |-> "d"],
        [get_fn |-> "n4", get_ref_fn |-> "n4_ref", T |-> "E",
         get_pattern |-> <<"_","_","_","_","e","_","_","_","_","_","_","_">>, ret |-> "e"],
        [get_fn |-> "n5", get_ref_fn |-> "n5_ref", T |-> "F",
         get_pattern |-> <<"_","_","_","_","_","f","_","_","_","_","_","_">>, ret |-> "f"],
        [get_fn |-> "n6", get_ref_fn |-> "n6_ref", T |-> "G",
         get_pattern |-> <<"_","_","_","_","_","_","g","_","_","_","_","_">>, ret |-> "g"],
        [get_fn |-> "n7", get_ref_fn |-> "n7_ref", T |-> "H",
         get_pattern |-> <<"_","_","_","_","_","_","_","h","_","_","_","_">>, ret |-> "h"],
        [get_fn |-> "n8", get_ref_fn |-> "n8_ref", T |-> "I",
         get_pattern |-> <<"_","_","_","_","_","_","_","_","i","_","_","_">>, ret |-> "i"],
        [get_fn |-> "n9", get_ref_fn |-> "n9_ref", T |-> "J",
         get_pattern |-> <<"_","_","_","_","_","_","_","_","_","j","_","_">>, ret |-> "j"],
        [get_fn |-> "n10", get_ref_fn |-> "n10_ref", T |-> "K",
         get_pattern |-> <<"_","_","_","_","_","_","_","_","_","_","k","_">>, ret |-> "k"],
        [get_fn |-> "n11", get_ref_fn |-> "n11_ref", T |-> "L",
         get_pattern |-> <<"_","_","_","_","_","_","_","_","_","_","_","l">>, ret |-> "l"] >>]
  >>

\* The impl block whose type ($($T),+) has t's arity: one $T per row.
Impl(t) == CHOOSE e \in Range(TupleImpls) : Len(e.rows) = Len(t)

\* The arities tuple_impls! is invoked for.
Arities == {Len(e.rows) : e \in Range(TupleImpls)}

\* `match *self { $get_pattern => $ret }`: the slot the pattern binds to the
\* name it returns.
match_ref(t, row) ==
    CHOOSE k \in 1..Len(t) : row.get_pattern[k] = row.ret

\* self.$get_ref_fn(): the method of t's impl with that name.
get_ref(t, name) ==
    match_ref(t, CHOOSE r \in Range(Impl(t).rows) : r.get_ref_fn = name)

\* The names n<i>_ref and n<i>, i = 0..11.
RefNames ==
    <<"n0_ref", "n1_ref", "n2_ref", "n3_ref", "n4_ref", "n5_ref",
      "n6_ref", "n7_ref", "n8_ref", "n9_ref", "n10_ref", "n11_ref">>

GetNames ==
    <<"n0", "n1", "n2", "n3", "n4", "n5", "n6", "n7", "n8", "n9", "n10", "n11">>

\* The accessors an impl offers.
RefFns(t) == {r.get_ref_fn : r \in Range(Impl(t).rows)}

GetFns(t) == {r.get_fn : r \in Range(Impl(t).rows)}

\* n_ref with the row of n2_ref returning what its left neighbour binds.
n_ref_neighbour(t, i) == get_ref(t, RefNames[IF i = 2 THEN 2 ELSE i + 1])

\* t.n<i>_ref(): a reference into t.
n_ref(t, i) == get_ref(t, RefNames[i + 1])

\* *r for a reference r into t.
Deref(t, r) == t[r]

(***************************************************************************)
(* The element types.  The tuple impls are generic in them; the model      *)
(* instantiates every $T with one of two types: "uint", the values         *)
(* 0..MaxElem, and "float", the same values and NaN.  NaN is neither <     *)
(* nor == to anything, itself included; the total operations (equals, cmp) *)
(* treat it as a value of its own that sorts first.                        *)
(***************************************************************************)
NaN == 0 - 1

ElemTypes == {"uint", "float"}

Elem(t) == IF t = "uint" THEN 0..MaxElem ELSE {NaN} \cup (0..MaxElem)

\* clone() of an element.
ElemClone(x) == x

\* *x < *y
ElemLt(x, y) == x # NaN /\ y # NaN /\ x < y

\* *x == *y
ElemEq(x, y) == x # NaN /\ y # NaN /\ x = y

\* x.equals(y)
ElemEquals(x, y) == x = y

\* x.cmp(y)
ElemCmp(x, y) == IF x < y THEN "Less" ELSE IF x = y THEN "Equal" ELSE "Greater"

\* One element-level call: the operation, which tuple its receiver (left
\* operand) lies in, and the slots read in the receiver's tuple and in the
\* argument's.
Call(fn, lhs, ls, rs) == [fn |-> fn, lhs |-> lhs, ls |-> ls, rs |-> rs]

\* self.$get_ref_fn() of row k of self's impl.
ref_k(t, k) == get_ref(t, Impl(t).rows[k].get_ref_fn)

\* fn $get_fn(&self) -> $T { self.$get_ref_fn().clone() }: the method of t's
\* impl with that name, cloning through the $get_ref_fn of its own row.
get_val(t, name) ==
    LET row == CHOOSE r \in Range(Impl(t).rows) : r.get_fn = name
    IN  ElemClone(Deref(t, get_ref(t, row.get_ref_fn)))

\* n_get with every n<i> cloning what n0 clones.
n_get_first(t, i) == get_val(t, GetNames[1])

\* t.n<i>()
n_get(t, i) == get_val(t, GetNames[i + 1])

\* lexical_lt! with the rest compared before the head is looked at.
RECURSIVE lexical_lt_eager(_, _, _)
lexical_lt_eager(self, other, k) ==
    LET ra == ref_k(self, k)
        rb == ref_k(other, k)
        ab == Call("lt", "self", ra, rb)
        ba == Call("lt", "other", rb, ra)
    IN  IF k = Len(Impl(self).rows)
        THEN [res |-> ElemLt(Deref(self, ra), Deref(other, rb)), log |-> <<ab>>]
        ELSE LET rest == lexical_lt_eager(self, other, k + 1)
             IN  [res |-> \/ ElemLt(Deref(self, ra), Deref(other, rb))
                          \/ /\ ~ElemLt(Deref(other, rb), Deref(self, ra))
                             /\ rest.res,
                  log |-> rest.log \o <<ab, ba>>]

\* lexical_lt! with the branches of the second test exchanged.
RECURSIVE lexical_lt_flipped(_, _, _)
lexical_lt_flipped(self, other, k) ==
    LET ra == ref_k(self, k)
        rb == ref_k(other, k)
        ab == Call("lt", "self", ra, rb)
        ba == Call("lt", "other", rb, ra)
    IN  IF k = Len(Impl(self).rows)
        THEN [res |-> ElemLt(Deref(self, ra), Deref(other, rb)), log |-> <<ab>>]
        ELSE IF ElemLt(Deref(self, ra), Deref(other, rb))
        THEN [res |-> TRUE, log |-> <<ab>>]
        ELSE IF ElemLt(Deref(other, rb), Deref(self, ra))
        THEN LET rest == lexical_lt_flipped(self, other, k + 1)
             IN  [res |-> rest.res, log |-> <<ab, ba>> \o rest.log]
        ELSE [res |-> FALSE, log |-> <<ab, ba>>]

(***************************************************************************)
(* lexical_lt!(a1, b1, a2, b2, ...) expanded from row k on.                *)
(***************************************************************************)
RECURSIVE lexical_lt(_, _, _)
lexical_lt(self, other, k) ==
    LET ra == ref_k(self, k)
        rb == ref_k(other, k)
        ab == Call("lt", "self", ra, rb)
        ba == Call("lt", "other", rb, ra)
    IN  IF k = Len(Impl(self).rows)
        THEN [res |-> ElemLt(Deref(self, ra), Deref(other, rb)), log |-> <<ab>>]
        ELSE IF ElemLt(Deref(self, ra), Deref(other, rb))
        THEN [res |-> TRUE, log |-> <<ab>>]
        ELSE IF ~ElemLt(Deref(other, rb), Deref(self, ra))
        THEN LET rest == lexical_lt(self, other, k + 1)
             IN  [res |-> rest.res, log |-> <<ab, ba>> \o rest.log]
        ELSE [res |-> FALSE, log |-> <<ab, ba>>]

\* lexical_cmp! with only Less returned at once: the match arms
\* `Less => Less, _ => lexical_cmp!(rest)`.
RECURSIVE lexical_cmp_less(_, _, _)
lexical_cmp_less(self, other, k) ==
    LET ra == ref_k(self, k)
        rb == ref_k(other, k)
        c  == Call("cmp", "self", ra, rb)
        o  == ElemCmp(Deref(self, ra), Deref(other, rb))
    IN  IF k = Len(Impl(self).rows)
        THEN [res |-> o, log |-> <<c>>]
        ELSE IF o = "Less"
        THEN [res |-> o, log |-> <<c>>]
        ELSE LET rest == lexical_cmp_less(self, other, k + 1)
             IN  [res |-> rest.res, log |-> <<c>> \o rest.log]

(***************************************************************************)
(* lexical_cmp!(a1, b1, a2, b2, ...) expanded from row k on.               *)
(***************************************************************************)
RECURSIVE lexical_cmp(_, _, _)
lexical_cmp(self, other, k) ==
    LET ra == ref_k(self, k)
        rb == ref_k(other, k)
        c  == Call("cmp", "self", ra, rb)
        o  == ElemCmp(Deref(self, ra), Deref(other, rb))
    IN  IF k = Len(Impl(self).rows)
        THEN [res |-> o, log |-> <<c>>]
        ELSE IF o = "Equal"
        THEN LET rest == lexical_cmp(self, other, k + 1)
             IN  [res |-> rest.res, log |-> <<c>> \o rest.log]
        ELSE [res |-> o, log |-> <<c>>]

\* The && chain of == with the last row left out of the repetition.
RECURSIVE and_eq_short(_, _, _)
and_eq_short(self, other, k) ==
    LET ra == ref_k(self, k)
        rb == ref_k(other, k)
        c  == Call("eq", "self", ra, rb)
    IN  IF k >= Len(Impl(self).rows) - 1
        THEN [res |-> ElemEq(Deref(self, ra), Deref(other, rb)), log |-> <<c>>]
        ELSE IF ElemEq(Deref(self, ra), Deref(other, rb))
        THEN LET rest == and_eq_short(self, other, k + 1)
             IN  [res |-> rest.res, log |-> <<c>> \o rest.log]
        ELSE [res |-> FALSE, log |-> <<c>>]

\* $(*self.$get_ref_fn() == *other.$get_ref_fn())&&+ from row k on.
RECURSIVE and_eq(_, _, _)
and_eq(self, other, k) ==
    LET ra == ref_k(self, k)
        rb == ref_k(other, k)
        c  == Call("eq", "self", ra, rb)
    IN  IF k = Len(Impl(self).rows)
        THEN [res |-> ElemEq(Deref(self, ra), Deref(other, rb)), log |-> <<c>>]
        ELSE IF ElemEq(Deref(self, ra), Deref(other, rb))
        THEN LET rest == and_eq(self, other, k + 1)
             IN  [res |-> rest.res, log |-> <<c>> \o rest.log]
        ELSE [res |-> FALSE, log |-> <<c>>]

\* The chain of equals joined by || instead of &&.
RECURSIVE and_equals_or(_, _, _)
and_equals_or(self, other, k) ==
    LET ra == ref_k(self, k)
        rb == ref_k(other, k)
        c  == Call("equals", "self", ra, rb)
    IN  IF k = Len(Impl(self).rows)
        THEN [res |-> ElemEquals(Deref(self, ra), Deref(other, rb)), log |-> <<c>>]
        ELSE IF ElemEquals(Deref(self, ra), Deref(other, rb))
        THEN [res |-> TRUE, log |-> <<c>>]
        ELSE LET rest == and_equals_or(self, other, k + 1)
             IN  [res |-> rest.res, log |-> <<c>> \o rest.log]

\* $(self.$get_ref_fn().equals(other.$get_ref_fn()))&&+ from row k on.
RECURSIVE and_equals(_, _, _)
and_equals(self, other, k) ==
    LET ra == ref_k(self, k)
        rb == ref_k(other, k)
        c  == Call("equals", "self", ra, rb)
    IN  IF k = Len(Impl(self).rows)
        THEN [res |-> ElemEquals(Deref(self, ra), Deref(other, rb)), log |-> <<c>>]
        ELSE IF ElemEquals(Deref(self, ra), Deref(other, rb))
        THEN LET rest == and_equals(self, other, k + 1)
             IN  [res |-> rest.res, log |-> <<c>> \o rest.log]
        ELSE [res |-> FALSE, log |-> <<c>>]

\* Eq for tuples.
tuple_eq(self, other) == and_eq(self, other, 1)

tuple_ne(self, other) ==
    LET e == tuple_eq(self, other) IN [res |-> ~e.res, log |-> e.log]

\* TotalEq for tuples.
tuple_equals(self, other) == and_equals(self, other, 1)

\* Ord for tuples.
tuple_lt(self, other) == lexical_lt(self, other, 1)

\* le generated on its own, as `*self < *other || *self == *other`.
tuple_le_own(self, other) ==
    LET l == tuple_lt(self, other)
        e == tuple_eq(self, other)
    IN  IF l.res THEN [res |-> TRUE, log |-> l.log]
        ELSE [res |-> e.res, log |-> l.log \o e.log]

tuple_le(self, other) ==
    LET l == tuple_lt(other, self) IN [res |-> ~l.res, log |-> l.log]

\* ge written as le is: !(*other).lt(&(*self)).
tuple_ge_as_le(self, other) ==
    LET l == tuple_lt(other, self) IN [res |-> ~l.res, log |-> l.log]

tuple_ge(self, other) ==
    LET l == tuple_lt(self, other) IN [res |-> ~l.res, log |-> l.log]

tuple_gt(self, other) ==
    LET l == tuple_lt(other, self) IN [res |-> l.res, log |-> l.log]

\* cmp with the operands of lexical_cmp! interleaved the other way round.
tuple_cmp_swapped(self, other) == lexical_cmp(other, self, 1)

\* TotalOrd for tuples.
tuple_cmp(self, other) == lexical_cmp(self, other, 1)

\* Zero::zero::<$T>() and is_zero() of the element types.
ElemZero(T) == 0

ElemIsZero(x) == x = 0

\* clone with the rows taken in the opposite order.
tuple_clone_reversed(self) ==
    [k \in 1..Len(Impl(self).rows) |->
        ElemClone(Deref(self, ref_k(self, Len(Impl(self).rows) + 1 - k)))]

\* Clone for tuples: ($(self.$get_ref_fn().clone()),+)
tuple_clone(self) ==
    [k \in 1..Len(Impl(self).rows) |-> ElemClone(Deref(self, ref_k(self, k)))]

\* Zero::zero for the tuple type of t: ($(Zero::zero::<$T>()),+)
tuple_zero(t) == [k \in 1..Len(Impl(t).rows) |-> ElemZero(ty)]

\* The chain of is_zero joined by || instead of &&.
RECURSIVE and_is_zero_or(_, _)
and_is_zero_or(self, k) ==
    LET ra == ref_k(self, k)
        c  == Call("is_zero", "self", ra, ra)
    IN  IF k = Len(Impl(self).rows)
        THEN [res |-> ElemIsZero(Deref(self, ra)), log |-> <<c>>]
        ELSE IF ElemIsZero(Deref(self, ra))
        THEN [res |-> TRUE, log |-> <<c>>]
        ELSE LET rest == and_is_zero_or(self, k + 1)
             IN  [res |-> rest.res, log |-> <<c>> \o rest.log]

\* $(self.$get_ref_fn().is_zero())&&+ from row k on.
RECURSIVE and_is_zero(_, _)
and_is_zero(self, k) ==
    LET ra == ref_k(self, k)
        c  == Call("is_zero", "self", ra, ra)
    IN  IF k = Len(Impl(self).rows)
        THEN [res |-> ElemIsZero(Deref(self, ra)), log |-> <<c>>]
        ELSE IF ElemIsZero(Deref(self, ra))
        THEN LET rest == and_is_zero(self, k + 1)
             IN  [res |-> rest.res, log |-> <<c>> \o rest.log]
        ELSE [res |-> FALSE, log |-> <<c>>]

\* Zero::is_zero for tuples.
tuple_is_zero(self) == and_is_zero(self, 1)

(***************************************************************************)
(* The pair methods, CopyableTuple and ImmutableTuple for (T, U).          *)
(***************************************************************************)
\* `copy` of an element.
ElemCopy(x) == x

\* match *self { (ref t, _) => t }
first_ref(p) == match_ref(p, [get_pattern |-> <<"t", "_">>, ret |-> "t"])

\* match *self { (_, ref u) => u }
second_ref(p) == match_ref(p, [get_pattern |-> <<"_", "u">>, ret |-> "u"])

\* match *self { (ref t, _) => copy *t }
first(p) ==
    ElemCopy(Deref(p, match_ref(p, [get_pattern |-> <<"t", "_">>, ret |-> "t"])))

\* match *self { (_, ref u) => copy *u }
second(p) ==
    ElemCopy(Deref(p, match_ref(p, [get_pattern |-> <<"_", "u">>, ret |-> "u"])))

\* swap returning the pair in its own order: (t, u) => (t, u).
swap_same(p) == <<ElemCopy(p[1]), ElemCopy(p[2])>>

\* match copy *self { (t, u) => (u, t) }
swap(p) == <<ElemCopy(p[2]), ElemCopy(p[1])>>

(***************************************************************************)
(* The inputs: every tuple of an arity up to MaxEnumArity over an element  *)
(* type; for the larger arities the tuples with at most one non-zero       *)
(* position and the tuples of the tests: the prefix of (0, 1, ..., 11) of  *)
(* test_n_tuple and, as small and big in test_tuple_cmp, its reverse.      *)
(***************************************************************************)
TestTuple(n) == [k \in 1..n |-> k - 1]

Reverse(t) == [k \in 1..Len(t) |-> t[Len(t) + 1 - k]]

OneOff(t, n) ==
    {[k \in 1..n |-> IF k = p THEN v ELSE 0] : p \in 1..n, v \in Elem(t)}

Tuples(t, n) ==
    IF n <= MaxEnumArity THEN [1..n -> Elem(t)]
    ELSE OneOff(t, n) \cup
         (IF t = "uint" THEN {TestTuple(n), Reverse(TestTuple(n))} ELSE {})

Init ==
    /\ ty \in ElemTypes
    /\ \E n \in Arities : a \in Tuples(ty, n) /\ b \in Tuples(ty, n)
    /\ op = "none"
    /\ idx = 0
    /\ res = "none"
    /\ log = <<>>
    /\ BytesIdle
    /\ VisitIdle

\* A call made by an idle caller returned r, having made the element-level
\* calls l; a and b were borrowed immutably (&self, other: &(..)).
Return(name, i, r, l) ==
    /\ op = "none"
    /\ op' = name
    /\ idx' = i
    /\ res' = r
    /\ log' = l
    /\ UNCHANGED <<ty, a, b>>
    /\ UNCHANGED <<bytesVars, visitVars>>

\* a.n<i>_ref()
NRef == \E i \in 0..(Len(a) - 1) : Return("n_ref", i, n_ref(a, i), <<>>)

\* a.n<i>()
NGet == \E i \in 0..(Len(a) - 1) : Return("n", i, n_get(a, i), <<>>)

\* a == b
Eq == LET r == tuple_eq(a, b) IN Return("eq", 0, r.res, r.log)

\* a != b
Ne == LET r == tuple_ne(a, b) IN Return("ne", 0, r.res, r.log)

\* a.equals(&b)
Equals == LET r == tuple_equals(a, b) IN Return("equals", 0, r.res, r.log)

\* a < b
Lt == LET r == tuple_lt(a, b) IN Return("lt", 0, r.res, r.log)

\* a <= b
Le == LET r == tuple_le(a, b) IN Return("le", 0, r.res, r.log)

\* a >= b
Ge == LET r == tuple_ge(a, b) IN Return("ge", 0, r.res, r.log)

\* a > b
Gt == LET r == tuple_gt(a, b) IN Return("gt", 0, r.res, r.log)

\* a.cmp(&b)
Cmp == LET r == tuple_cmp(a, b) IN Return("cmp", 0, r.res, r.log)

\* a.clone()
Clone == Return("clone", 0, tuple_clone(a), <<>>)

\* Zero::zero() at the type of a
Zero == Return("zero", 0, tuple_zero(a), <<>>)

\* a.is_zero()
IsZero == LET r == tuple_is_zero(a) IN Return("is_zero", 0, r.res, r.log)

\* a.first(), for a pair
First == Len(a) = 2 /\ Return("first", 0, first(a), <<>>)

\* a.second(), for a pair
Second == Len(a) = 2 /\ Return("second", 0, second(a), <<>>)

\* a.first_ref(), for a pair
FirstRef == Len(a) = 2 /\ Return("first_ref", 0, first_ref(a), <<>>)

\* a.second_ref(), for a pair
SecondRef == Len(a) = 2 /\ Return("second_ref", 0, second_ref(a), <<>>)

\* a.swap(), for a pair
Swap == Len(a) = 2 /\ Return("swap", 0, swap(a), <<>>)

\* The caller is done with the returned value.
Discard ==
    /\ op # "none"
    /\ op' = "none"
    /\ idx' = 0
    /\ res' = "none"
    /\ log' = <<>>
    /\ UNCHANGED <<ty, a, b>>
    /\ UNCHANGED <<bytesVars, visitVars>>

Next ==
    \/ Discard
    \/ NRef
    \/ NGet
    \/ Eq
    \/ Ne
    \/ Equals
    \/ Lt
    \/ Le
    \/ Ge
    \/ Gt
    \/ Cmp
    \/ Clone
    \/ Zero
    \/ IsZero
    \/ First
    \/ Second
    \/ FirstRef
    \/ SecondRef
    \/ Swap

(***************************************************************************)
(* The byte-order helpers.  An integer of width W is the sequence of its   *)
(* W / 8 bytes, the least significant first; `host` is the value of        *)
(* cfg(target_endian) the crate is built with.                             *)
(***************************************************************************)
\* Largest byte value of the enumerated integers.
MaxByte == 1

Hosts == {"little", "big"}

\* The widths of the helpers, in bytes: i16, i32, i64.
Widths == {2, 4, 8}

Words == UNION {[1..w -> 0..MaxByte] : w \in Widths}

\* The bswap intrinsics: the bytes in the opposite order.
bswap16(x) == [k \in 1..2 |-> x[3 - k]]

bswap32(x) == [k \in 1..4 |-> x[5 - k]]

bswap64(x) == [k \in 1..8 |-> x[9 - k]]

to_le16(h, x) == IF h = "little" THEN x ELSE bswap16(x)

to_le32(h, x) == IF h = "little" THEN x ELSE bswap32(x)

\* to_le64 with the two cfg attributes exchanged.
to_le64_exchanged(h, x) == IF h = "big" THEN x ELSE bswap64(x)

to_le64(h, x) == IF h = "little" THEN x ELSE bswap64(x)

to_be16(h, x) == IF h = "little" THEN bswap16(x) ELSE x

to_be32(h, x) == IF h = "little" THEN bswap32(x) ELSE x

to_be64(h, x) == IF h = "little" THEN bswap64(x) ELSE x

\* The helper of x's width.
bswap(x) ==
    CASE Len(x) = 2 -> bswap16(x)
      [] Len(x) = 4 -> bswap32(x)
      [] Len(x) = 8 -> bswap64(x)

to_le(h, x) ==
    CASE Len(x) = 2 -> to_le16(h, x)
      [] Len(x) = 4 -> to_le32(h, x)
      [] Len(x) = 8 -> to_le64(h, x)

to_be(h, x) ==
    CASE Len(x) = 2 -> to_be16(h, x)
      [] Len(x) = 4 -> to_be32(h, x)
      [] Len(x) = 8 -> to_be64(h, x)

InitBytes ==
    /\ host \in Hosts
    /\ word \in Words
    /\ TupleIdle
    /\ CallIdle
    /\ VisitIdle

\* A helper called by an idle caller returned r.
ReturnBytes(name, r) ==
    /\ op = "none"
    /\ op' = name
    /\ res' = r
    /\ UNCHANGED <<idx, log, tupleVars, bytesVars, visitVars>>

\* to_le<W>(word)
ToLe == ReturnBytes("to_le", to_le(host, word))

\* to_be<W>(word)
ToBe == ReturnBytes("to_be", to_be(host, word))

\* The caller is done with the returned value.
DiscardBytes ==
    /\ op # "none"
    /\ op' = "none"
    /\ res' = "none"
    /\ UNCHANGED <<idx, log, tupleVars, bytesVars, visitVars>>

NextBytes ==
    \/ ToLe
    \/ ToBe
    \/ DiscardBytes

(***************************************************************************)
(* The type-descriptor visitor.  intrinsics.rs declares the callbacks      *)
(* (trait TyVisitor) and the entry point visit_tydesc(td, tv); the glue    *)
(* that issues the callbacks is generated by the compiler.  It is modelled *)
(* as the design describes it: for a composite shape an enter callback,    *)
(* one callback per field, input or variant in declaration order, and a    *)
(* leave callback; every callback returns a bool and false stops the       *)
(* traversal.  visit_tydesc is given the descriptor and the visitor, not   *)
(* the value: get_disr and every variant's disr_val are handed to the      *)
(* visitor, which holds the value.  A callback is the record of its name,  *)
(* its uint and int arguments, and its name and pointer arguments, each in *)
(* the order of the declaration.                                           *)
(***************************************************************************)
\* Largest number of fields of a record or of a variant, and of inputs of a
\* function.
MaxFields == 3

\* Largest number of variants of an enum.
MaxVariants == 2

CB(fn, u, s) == [fn |-> fn, u |-> u, s |-> s]

\* The descriptors of the field types, and the names of fields and variants.
InnerOf(i) == <<"i32_tydesc", "f64_tydesc", "bool_tydesc", "u8_tydesc">>[((i - 1) % 4) + 1]

FieldName(i) == <<"x", "y", "z", "w">>[((i - 1) % 4) + 1]

VariantName(v) == <<"A", "B", "C", "D">>[((v - 1) % 4) + 1]

\* A record type with k fields.
RecDesc(k) ==
    [shape |-> "rec", size |-> 8 * k, align |-> 8,
     fields |-> [i \in 1..k |->
                    [name |-> FieldName(i), mtbl |-> 1, inner |-> InnerOf(i)]]]

\* An enum type whose variant v has fc[v] fields and the discriminant 10 * v.
EnumDesc(fc) ==
    [shape |-> "enum", size |-> 8 * (1 + MaxFields), align |-> 8,
     variants |-> [v \in 1..Len(fc) |->
                      [disr_val |-> 10 * v, name |-> VariantName(v),
                       fields |-> [j \in 1..fc[v] |->
                                      [offset |-> 8 * j, inner |-> InnerOf(j)]]]]]

\* A function type with k inputs.
FnDesc(k) ==
    [shape |-> "fn", purity |-> 1, proto |-> 2, retstyle |-> 1,
     inputs |-> [i \in 1..k |-> [mode |-> 5, inner |-> InnerOf(i)]],
     output |-> "bool_tydesc"]

TyDescs ==
    {RecDesc(k) : k \in 0..MaxFields}
    \cup {FnDesc(k) : k \in 0..MaxFields}
    \cup {EnumDesc(fc) : fc \in UNION {[1..n -> 0..MaxFields] : n \in 1..MaxVariants}}

\* The values get_disr can return for a value of the type.
Disrs(t) ==
    IF t.shape = "enum" THEN {t.variants[v].disr_val : v \in 1..Len(t.variants)}
    ELSE {0}

\* Record callbacks with the field index counted from 1.
RecPlan_from_one(t) ==
    LET n == Len(t.fields)
    IN  <<CB("visit_enter_rec", <<n, t.size, t.align>>, <<>>)>>
        \o [i \in 1..n |->
               CB("visit_rec_field", <<i, t.fields[i].mtbl>>,
                  <<t.fields[i].name, t.fields[i].inner>>)]
        \o <<CB("visit_leave_rec", <<n, t.size, t.align>>, <<>>)>>

\* The callbacks of a record: enter_rec, rec_field per field, leave_rec.
RecPlan(t) ==
    LET n == Len(t.fields)
    IN  <<CB("visit_enter_rec", <<n, t.size, t.align>>, <<>>)>>
        \o [i \in 1..n |->
               CB("visit_rec_field", <<i - 1, t.fields[i].mtbl>>,
                  <<t.fields[i].name, t.fields[i].inner>>)]
        \o <<CB("visit_leave_rec", <<n, t.size, t.align>>, <<>>)>>

\* The callbacks of a function: enter_fn, fn_input per input, fn_output,
\* leave_fn.
FnPlan(t) ==
    LET n == Len(t.inputs)
    IN  <<CB("visit_enter_fn", <<t.purity, t.proto, n, t.retstyle>>, <<>>)>>
        \o [i \in 1..n |->
               CB("visit_fn_input", <<i - 1, t.inputs[i].mode>>,
                  <<t.inputs[i].inner>>)]
        \o <<CB("visit_fn_output", <<t.retstyle>>, <<t.output>>),
             CB("visit_leave_fn", <<t.purity, t.proto, n, t.retstyle>>, <<>>)>>

\* The callbacks of variant v: enter_enum_variant, enum_variant_field per
\* field, leave_enum_variant.
VariantPlan(t, v) ==
    LET var == t.variants[v]
        n   == Len(var.fields)
    IN  <<CB("visit_enter_enum_variant", <<v - 1, var.disr_val, n>>, <<var.name>>)>>
        \o [j \in 1..n |->
               CB("visit_enum_variant_field", <<j - 1, var.fields[j].offset>>,
                  <<var.fields[j].inner>>)]
        \o <<CB("visit_leave_enum_variant", <<v - 1, var.disr_val, n>>, <<var.name>>)>>

\* The variants from v on, in declaration order.
RECURSIVE VariantsPlan(_, _)
VariantsPlan(t, v) ==
    IF v > Len(t.variants) THEN <<>>
    ELSE VariantPlan(t, v) \o VariantsPlan(t, v + 1)

\* Enum callbacks for the variant of the value only.
EnumPlan_active_only(t) ==
    LET v == CHOOSE w \in 1..Len(t.variants) : t.variants[w].disr_val = disr
    IN  <<CB("visit_enter_enum", <<Len(t.variants), t.size, t.align>>, <<"get_disr">>)>>
        \o VariantPlan(t, v)
        \o <<CB("visit_leave_enum", <<Len(t.variants), t.size, t.align>>, <<"get_disr">>)>>

\* The callbacks of an enum: enter_enum, then per variant its callbacks,
\* finally leave_enum.
EnumPlan(t) ==
    <<CB("visit_enter_enum", <<Len(t.variants), t.size, t.align>>, <<"get_disr">>)>>
    \o VariantsPlan(t, 1)
    \o <<CB("visit_leave_enum", <<Len(t.variants), t.size, t.align>>, <<"get_disr">>)>>

\* The callbacks visit_tydesc issues for t while every one returns true.
Plan(t) ==
    CASE t.shape = "rec" -> RecPlan(t)
      [] t.shape = "fn" -> FnPlan(t)
      [] t.shape = "enum" -> EnumPlan(t)

EnterFns == {"visit_enter_rec", "visit_enter_fn", "visit_enter_enum",
             "visit_enter_enum_variant"}

LeaveFns == {"visit_leave_rec", "visit_leave_fn", "visit_leave_enum",
             "visit_leave_enum_variant"}

\* The leave callback that closes an enter callback: the same arguments.
LeaveOf(c) ==
    CB(CASE c.fn = "visit_enter_rec" -> "visit_leave_rec"
         [] c.fn = "visit_enter_fn" -> "visit_leave_fn"
         [] c.fn = "visit_enter_enum" -> "visit_leave_enum"
         [] c.fn = "visit_enter_enum_variant" -> "visit_leave_enum_variant",
       c.u, c.s)

\* The positions in cs of the composites entered and not yet left.
Open(cs) ==
    {m \in 1..Len(cs) :
        /\ cs[m].fn \in EnterFns
        /\ cs[m].ret
        /\ ~\E l \in (m + 1)..Len(cs) :
               cs[l].fn = LeaveOf(cs[m]).fn /\ cs[l].u = cs[m].u}

Max(S) == CHOOSE x \in S : \A y \in S : y <= x

Returned(c, r) == [fn |-> c.fn, u |-> c.u, s |-> c.s, ret |-> r]

\* A traversal that goes on to the next callback after a false.
AfterFalse_goes_on(cs) == IF Len(cs) = Len(Plan(td)) THEN "done" ELSE "running"

\* The traversal after the callbacks cs, the last of which returned false:
\* it halts at once, or, in the design with a closing call, issues the leave
\* of the innermost composite still open and halts then.
AfterFalse(cs) ==
    IF design = "closing_leave" /\ Open(cs) # {} THEN "closing" ELSE "halted"

\* visit_tydesc(td, tv) was called, for a value with the discriminant disr.
InitVisit ==
    /\ td \in TyDescs
    /\ disr \in Disrs(td)
    /\ design \in {"halt", "closing_leave"}
    /\ calls = <<>>
    /\ status = "running"
    /\ TupleIdle
    /\ CallIdle
    /\ BytesIdle

\* The next callback is issued and the visitor returns true.
CallbackTrue ==
    /\ status = "running"
    /\ calls' = Append(calls, Returned(Plan(td)[Len(calls) + 1], TRUE))
    /\ status' = IF Len(calls') = Len(Plan(td)) THEN "done" ELSE "running"
    /\ UNCHANGED <<td, disr, design, tupleVars, op, idx, res, log, bytesVars>>

\* The next callback is issued and the visitor returns false.
CallbackFalse ==
    /\ status = "running"
    /\ calls' = Append(calls, Returned(Plan(td)[Len(calls) + 1], FALSE))
    /\ status' = AfterFalse(calls')
    /\ UNCHANGED <<td, disr, design, tupleVars, op, idx, res, log, bytesVars>>

\* The closing call of an aborted traversal; what it returns changes nothing.
ClosingLeave ==
    /\ status = "closing"
    /\ \E r \in BOOLEAN :
           calls' = Append(calls, Returned(LeaveOf(calls[Max(Open(calls))]), r))
    /\ status' = "halted"
    /\ UNCHANGED <<td, disr, design, tupleVars, op, idx, res, log, bytesVars>>

NextVisit ==
    \/ CallbackTrue
    \/ CallbackFalse
    \/ ClosingLeave

(***************************************************************************)
(* Properties.                                                             *)
(***************************************************************************)

\* The values the element type of a and b is instantiated on.
Values == Elem(ty) \cup Range(a) \cup Range(b)

Min(S) == CHOOSE x \in S : \A y \in S : x <= y

\* < and == make a total order of S: exactly one of x < y, x == y, y < x.
TotallyOrdered(S) ==
    \A x, y \in S :
        /\ ElemLt(x, y) \/ ElemEq(x, y) \/ ElemLt(y, x)
        /\ ~(ElemLt(x, y) /\ ElemEq(x, y))
        /\ ~(ElemLt(x, y) /\ ElemLt(y, x))
        /\ ~(ElemEq(x, y) /\ ElemLt(y, x))

\* cmp and < of the element type say the same on S.
CmpLtConsistent(S) ==
    \A x, y \in S :
        /\ ElemCmp(x, y) = "Less" <=> ElemLt(x, y)
        /\ ElemCmp(x, y) = "Greater" <=> ElemLt(y, x)

\* == and equals of the element type say the same on S (no NaN-like value).
EqEqualsAgree(S) == \A x, y \in S : ElemEq(x, y) <=> ElemEquals(x, y)

\* x precedes y in dictionary order.
DictLess(x, y) ==
    \E i \in 1..Len(x) :
        /\ ElemLt(x[i], y[i])
        /\ \A j \in 1..(i - 1) : ElemEq(x[j], y[j])

OnlyLt(l) == \A m \in 1..Len(l) : l[m].fn = "lt"

\* C1: the impls cover the arities 2..12, the reference accessors of arity N
\* are exactly n0_ref..n<N-1>_ref, and n<i>_ref returns a reference to
\* position i (slot i + 1) of the tuple and to no other position.
C1_AccessorPosition ==
    /\ Arities = 2..12
    /\ Cardinality(Arities) = Len(TupleImpls)
    /\ \A e \in Range(TupleImpls) :
           {r.get_ref_fn : r \in Range(e.rows)} =
               {RefNames[i + 1] : i \in 0..(Len(e.rows) - 1)}
    /\ RefFns(a) = {RefNames[i + 1] : i \in 0..(Len(a) - 1)}
    /\ op = "n_ref" =>
           /\ res = idx + 1
           /\ Deref(a, res) = a[idx + 1]

C1_Witness ==
    /\ op = "n_ref"
    /\ Len(a) = 12
    /\ idx = 11
    /\ res = 12
    /\ a[12] # a[1]

\* C2: a call of n<i> returns a value equal to the dereference of n<i>_ref on
\* the same tuple whenever the clone of that element is equal to it, n<i>_ref
\* returns the reference n<i>_ref is defined to return, and neither call
\* changes the tuple.
C2_AccessorsAgree ==
    [][/\ op' = "n" =>
              LET x == Deref(a, n_ref(a, idx'))
              IN  /\ ElemEq(ElemClone(x), x) => ElemEq(res', x)
                  /\ a' = a
       /\ op' = "n_ref" => a' = a]_vars

C2_Witness ==
    /\ op = "n"
    /\ Len(a) = 3
    /\ idx = 2
    /\ a[3] # a[1]
    /\ res = Deref(a, n_ref(a, 2))

\* C3: over a totally ordered element type, a.lt(b) is true exactly when a
\* precedes b in dictionary order, and a.lt(a) is false.
C3_LtIsDictionaryOrder ==
    (op = "lt" /\ TotallyOrdered(Values)) =>
        /\ res <=> DictLess(a, b)
        /\ a = b => res = FALSE

C3_Witness ==
    /\ op = "lt"
    /\ TotallyOrdered(Values)
    /\ Len(a) = 3
    /\ a[1] = b[1]
    /\ a[2] = b[2]
    /\ a[3] < b[3]
    /\ res = TRUE

\* *x <= *y of the element types.
ElemLe(x, y) == x # NaN /\ y # NaN /\ x <= y

\* The decision procedure C4 describes: at a non-final position, less if
\* a[i] < b[i], not less if a[i] is not <= b[i], and the next position
\* otherwise; the final position is decided by <.
RECURSIVE ClaimedLt(_, _, _)
ClaimedLt(x, y, k) ==
    IF k = Len(x) THEN ElemLt(x[k], y[k])
    ELSE IF ElemLt(x[k], y[k]) THEN TRUE
    ELSE IF ~ElemLe(x[k], y[k]) THEN FALSE
    ELSE ClaimedLt(x, y, k + 1)

\* C4: for any element ordering, incomparable values included, a.lt(b) is
\* decided position by position: less where a[i] < b[i], not less where
\* a[i] is not <= b[i], and by the next position only where a[i] equals
\* b[i].
C4_LtDecidesByPosition == op = "lt" => res = ClaimedLt(a, b, 1)

\* C5: a.lt(b) compares the positions in increasing order from position 0,
\* the same position of both tuples in each comparison, and compares no
\* position after one at which a[i] < b[i] or b[i] < a[i].
C5_LtShortCircuits ==
    op = "lt" =>
        /\ log[1] = Call("lt", "self", 1, 1)
        /\ \A m \in 1..Len(log) : log[m].ls = log[m].rs
        /\ \A m \in 1..(Len(log) - 1) :
               log[m + 1].ls \in {log[m].ls, log[m].ls + 1}
        /\ \A m \in 1..Len(log) :
               \A j \in 1..(log[m].ls - 1) :
                   ~ElemLt(a[j], b[j]) /\ ~ElemLt(b[j], a[j])

C5_Witness ==
    /\ op = "lt"
    /\ Len(a) = 3
    /\ ElemLt(b[1], a[1])
    /\ ElemLt(a[2], b[2])
    /\ res = FALSE
    /\ Len(log) = 2

\* C6: a.le(b) = not b.lt(a), a.ge(b) = not a.lt(b), a.gt(b) = b.lt(a), and
\* the only element-level operation the three invoke is <.
C6_DerivedFromLt ==
    /\ op = "le" => res = ~tuple_lt(b, a).res /\ OnlyLt(log)
    /\ op = "ge" => res = ~tuple_lt(a, b).res /\ OnlyLt(log)
    /\ op = "gt" => res = tuple_lt(b, a).res /\ OnlyLt(log)

C6_Witness ==
    /\ op = "le"
    /\ Len(a) = 3
    /\ a # b
    /\ res = TRUE
    /\ Len(log) = 5

\* C7: a.cmp(b) returns the element cmp of the lowest position whose element
\* cmp is not Equal, having invoked cmp on the positions up to that one and
\* on no later one, and returns Equal exactly when the element cmp is Equal
\* at all positions.
C7_CmpFirstNonEqual ==
    op = "cmp" =>
        LET d    == {k \in 1..Len(a) : ElemCmp(a[k], b[k]) # "Equal"}
            stop == IF d = {} THEN Len(a) ELSE Min(d)
        IN  /\ res = ElemCmp(a[stop], b[stop])
            /\ log = [k \in 1..stop |-> Call("cmp", "self", k, k)]
            /\ res = "Equal" <=> d = {}

C7_Witness ==
    /\ op = "cmp"
    /\ Len(a) = 3
    /\ a[1] = b[1]
    /\ a[2] > b[2]
    /\ a[3] < b[3]
    /\ res = "Greater"
    /\ Len(log) = 2

\* C8: where the element type's cmp and < are consistent, a.cmp(b) is Equal
\* iff neither a.lt(b) nor b.lt(a), Less iff a.lt(b), Greater iff b.lt(a).
C8_CmpAgreesWithLt ==
    (op = "cmp" /\ CmpLtConsistent(Values)) =>
        /\ res = "Equal" <=> (~tuple_lt(a, b).res /\ ~tuple_lt(b, a).res)
        /\ res = "Less" <=> tuple_lt(a, b).res
        /\ res = "Greater" <=> tuple_lt(b, a).res

C8_Witness ==
    /\ op = "cmp"
    /\ CmpLtConsistent(Values)
    /\ Len(a) = 2
    /\ a[1] = b[1]
    /\ res = "Less"

\* C9: where the element type's == and equals agree, a.equals(b) and a == b
\* return the same.
C9_EqualsAgreesWithEq ==
    EqEqualsAgree(Values) =>
        /\ op = "equals" => res = tuple_eq(a, b).res
        /\ op = "eq" => res = tuple_equals(a, b).res

C9_Witness ==
    /\ op = "equals"
    /\ EqEqualsAgree(Values)
    /\ Len(a) = 3
    /\ a[1] = b[1]
    /\ a[2] # b[2]
    /\ res = FALSE

\* C10: a.eq(b) is true iff a[i] == b[i] at every position, and a.ne(b) is
\* the negation of a.eq(b).
C10_EqAllPositions ==
    /\ op = "eq" => (res <=> \A k \in 1..Len(a) : ElemEq(a[k], b[k]))
    /\ op = "ne" => res = ~tuple_eq(a, b).res

C10_Witness ==
    /\ op = "eq"
    /\ Len(a) = 12
    /\ a = b
    /\ a[12] # 0
    /\ res = TRUE
    /\ Len(log) = 12

\* C11: a.clone() has the arity of a, its element at every position is the
\* clone of a's element at that position (equal to it whenever the clone of
\* an element equals the element), and a is unchanged.
C11_ClonePositional ==
    [][op' = "clone" =>
          /\ Len(res') = Len(a)
          /\ \A k \in 1..Len(a) :
                 /\ res'[k] = ElemClone(a[k])
                 /\ ElemEq(ElemClone(a[k]), a[k]) => ElemEq(res'[k], a[k])
          /\ a' = a]_vars

C11_Witness ==
    /\ op = "clone"
    /\ Len(a) = 12
    /\ a[1] # a[12]
    /\ res = a

\* C12: zero() is the tuple whose every position is the element type's zero
\* and it is zero; a.is_zero() is true iff every position of a is zero.
C12_ZeroAllPositions ==
    /\ op = "zero" =>
           /\ Len(res) = Len(a)
           /\ \A k \in 1..Len(a) : res[k] = ElemZero(ty)
           /\ tuple_is_zero(res).res
    /\ op = "is_zero" => (res <=> \A k \in 1..Len(a) : ElemIsZero(a[k]))

C12_Witness ==
    /\ op = "is_zero"
    /\ Len(a) = 12
    /\ a[1] = 0
    /\ a[12] # 0
    /\ res = FALSE
    /\ Len(log) = 12

\* C17: for a pair p = (t, u), first(p) = t, second(p) = u, first_ref and
\* second_ref refer to those elements, swap(p) = (u, t), so that
\* swap(swap(p)) = p and first(swap(p)) = second(p); none changes p.
C17_PairMethods ==
    [][/\ op' = "first" => res' = a[1]
       /\ op' = "second" => res' = a[2]
       /\ op' = "first_ref" => (res' = 1 /\ Deref(a, res') = a[1])
       /\ op' = "second_ref" => (res' = 2 /\ Deref(a, res') = a[2])
       /\ op' = "swap" =>
              /\ res' = <<a[2], a[1]>>
              /\ swap(res') = a
              /\ first(res') = second(a)
       /\ op' \in {"first", "second", "first_ref", "second_ref", "swap"} =>
              a' = a]_vars

C17_Witness ==
    /\ op = "swap"
    /\ a[1] # a[2]
    /\ res = <<a[2], a[1]>>

\* C18: over a totally ordered element type exactly one of a < b, a == b,
\* b < a holds; a <= b iff a < b or a == b; a >= b iff b <= a; and < is
\* transitive (a < b and b < c give a < c, for every c of the same type).
C18_TotalOrder ==
    (op = "lt" /\ TotallyOrdered(Values)) =>
        LET lt == res
            gt == tuple_lt(b, a).res
            eq == tuple_eq(a, b).res
        IN  /\ lt \/ eq \/ gt
            /\ ~(lt /\ eq) /\ ~(lt /\ gt) /\ ~(eq /\ gt)
            /\ tuple_le(a, b).res <=> (lt \/ eq)
            /\ tuple_ge(a, b).res <=> tuple_le(b, a).res
            /\ \A c \in Tuples(ty, Len(a)) :
                   (lt /\ tuple_lt(b, c).res) => tuple_lt(a, c).res

C18_Witness ==
    /\ op = "lt"
    /\ TotallyOrdered(Values)
    /\ Len(a) = 3
    /\ res = TRUE
    /\ a[1] = b[1]
    /\ \E c \in Tuples(ty, Len(a)) : tuple_lt(b, c).res

\* C16: for each width and each host byte order, to_le is the identity on a
\* little-endian host and the byte swap on a big-endian one, to_be the
\* reverse; on either host to_be(x) = bswap(to_le(x)), and either helper
\* applied twice returns x.
C16_ByteOrderHelpers ==
    op \in {"to_le", "to_be"} =>
        LET le == to_le(host, word)
            be == to_be(host, word)
            sw == [k \in 1..Len(word) |-> word[Len(word) + 1 - k]]
        IN  /\ op = "to_le" => res = le
            /\ op = "to_be" => res = be
            /\ host = "little" => (le = word /\ be = sw)
            /\ host = "big" => (le = sw /\ be = word)
            /\ be = bswap(le)
            /\ to_le(host, le) = word
            /\ to_be(host, be) = word

C16_Witness ==
    /\ op = "to_be"
    /\ host = "little"
    /\ Len(word) = 8
    /\ word[1] # word[8]
    /\ res # word
    /\ res[1] = word[8]

\* Every callback issued so far returned true.
AllTrue == \A m \in 1..Len(calls) : calls[m].ret

\* C13: while every callback returns true, the traversal of a record with k
\* fields issues enter_rec(k, size, align), then rec_field for the fields
\* 0..k-1 in order with each field's name and type, then
\* leave_rec(k, size, align), and is complete exactly then.
C13_RecordCallbacks ==
    (td.shape = "rec" /\ AllTrue) =>
        LET k == Len(td.fields)
        IN  /\ Len(calls) <= k + 2
            /\ (status = "done") <=> (Len(calls) = k + 2)
            /\ status \in {"running", "done"}
            /\ \A m \in 1..Len(calls) :
                   /\ (m = 1) =>
                         /\ calls[m].fn = "visit_enter_rec"
                         /\ calls[m].u = <<k, td.size, td.align>>
                   /\ (1 < m /\ m <= k + 1) =>
                         /\ calls[m].fn = "visit_rec_field"
                         /\ calls[m].u[1] = m - 2
                         /\ calls[m].s = <<td.fields[m - 1].name, td.fields[m - 1].inner>>
                   /\ (m = k + 2) =>
                         /\ calls[m].fn = "visit_leave_rec"
                         /\ calls[m].u = <<k, td.size, td.align>>

\* A record of three fields was traversed to the end.
C13_Witness ==
    /\ td.shape = "rec"
    /\ Len(td.fields) = 3
    /\ status = "done"
    /\ AllTrue
    /\ Len(calls) = 5

\* The positions of the first callback that returned false.
FirstFalse ==
    {m \in 1..Len(calls) : ~calls[m].ret /\ \A l \in 1..(m - 1) : calls[l].ret}

\* C14: once a callback has returned false, no callback for a later field,
\* input or variant is issued and the traversal is over: at most one more
\* call follows, the leave call of a composite that was entered and not
\* yet left.
C14_FalseHalts ==
    \A m \in FirstFalse :
        /\ status \in {"closing", "halted"}
        /\ Len(calls) <= m + 1
        /\ (status = "closing") => (Len(calls) = m)
        /\ (Len(calls) = m + 1) =>
              /\ status = "halted"
              /\ calls[m + 1].fn \in LeaveFns
              /\ \E e \in 1..(m - 1) :
                    /\ calls[e].fn \in EnterFns
                    /\ calls[m + 1].fn = LeaveOf(calls[e]).fn
                    /\ calls[m + 1].u = calls[e].u
                    /\ ~\E l \in (e + 1)..m :
                          calls[l].fn = calls[m + 1].fn /\ calls[l].u = calls[e].u

\* A field, input or variant callback returned false while later ones were
\* still to come, and the traversal halted after its closing call.
C14_Witness ==
    /\ status = "halted"
    /\ \E m \in FirstFalse :
          /\ calls[m].fn \in {"visit_rec_field", "visit_fn_input",
                               "visit_enter_enum_variant"}
          /\ Len(Plan(td)) > m + 2
          /\ Len(calls) = m + 1

IsEnterVariant(c) == c.fn = "visit_enter_enum_variant"

\* The enter_enum_variant call that encloses the call at position m.
Enclosing(m) == Max({e \in 1..m : IsEnterVariant(calls[e])})

Spec == Init /\ [][Next]_vars

SpecBytes == InitBytes /\ [][NextBytes]_vars

SpecVisit == InitVisit /\ [][NextVisit]_vars

====
